---- MODULE Spec2Model ----
(***************************************************************************)
(* Model of my_script.py: the breakout-analysis pipeline                   *)
(*   fetch_stock_data -> calculate_rolling_avg_volume ->                   *)
(*   identify_breakout_days -> calculate_holding_returns -> summary.       *)
(*                                                                         *)
(* bars is the DataFrame object fetch_stock_data returned.  A run r of the *)
(* pipeline has its own position pc[r], configuration cfg[r], frame        *)
(* data[r] (the value calculate_rolling_avg_volume returned, then extended *)
(* by identify_breakout_days), trades results[r] and reported outcome[r].  *)
(* Spec is the script: one run "a".  SpecPar is two runs "a" and "b" over  *)
(* the same fetched frame, interleaved statement by statement where they   *)
(* touch that frame (lines 24, 25, 26) and stage by stage afterwards, when *)
(* each run works on a frame of its own.                                   *)
(*                                                                         *)
(* A pandas DataFrame is a record [index, cols]: index is the sequence of  *)
(* row labels (dates, as calendar day numbers) and cols maps a column name *)
(* to the sequence of its values, one per row.  Every number held in a     *)
(* frame is a float64 (the int64 volumes too: they are compared with and   *)
(* averaged into doubles, and an integer below 2^53 is a double).          *)
(***************************************************************************)
EXTENDS Integers, Sequences, FiniteSets, TLC

VARIABLES pc, cfg, bars, data, results, outcome

vars == <<pc, cfg, bars, data, results, outcome>>

(***************************************************************************)
(* Bounds of the model and the small input sets.                           *)
(***************************************************************************)
MaxDay == 6
MaxHold == 2

\* rolling_window: number_input(min_value=2, step=1)
Windows == {2, 3}
\* volume_threshold: number_input(min_value=100.1)
VolumeThresholds == {150}
\* price_threshold: number_input(min_value=0.1)
PriceThresholds == {10}
\* start_date: date_input
StartDates == {1, 6}
\* closes and volumes the data provider may report
CloseVals == {5, 10, 11}
VolVals == {1, 2}
\* the inputs of a run over a long series: its end_date and the closes the
\* provider may report
LongEndDates == {9}
LongCloseVals == {5, 10}
\* the closes of the series two runs share
ParCloseVals == {5, 10}
\* end_date of two runs that share a series
ParEndDates == {6}
Runs == {"a", "b"}

(***************************************************************************)
(* float64 arithmetic on the values of a frame.                            *)
(*                                                                         *)
(* A finite non-zero double is <<sign, exp, hi, lo>>: sign is 1 or -1, exp *)
(* the binary exponent and hi * 2^26 + lo the 53-bit significand           *)
(* (2^26 <= hi < 2^27, 0 <= lo < 2^26), its value                          *)
(*   sign * (hi * 2^26 + lo) * 2^(exp - 52).                               *)
(* Zero is <<0, 0, 0, 0>>, an infinity <<sign, 1024, 0, 0>>, NaN (and      *)
(* None) <<2, 0, 0, 0>>.  Every operation rounds its exact result to the   *)
(* nearest double, ties to even, as IEEE 754 binary64 does.  Exact         *)
(* intermediate integers are sequences of base-2^13 digits, least          *)
(* significant first.  Exponents stay far inside -1022 .. 1023 for prices, *)
(* volumes and percentages, so subnormals and overflow are left out, as is *)
(* the sign of zero, which no comparison of the program reads.             *)
(***************************************************************************)
B == 8192
H == 67108864

NaN == <<2, 0, 0, 0>>
Zero == <<0, 0, 0, 0>>
Inf(s) == <<s, 1024, 0, 0>>
IsNaN(a) == a[1] = 2
IsZero(a) == a[1] = 0
IsInf(a) == a[2] = 1024

RECURSIVE BitLen(_)
BitLen(n) == IF n = 0 THEN 0 ELSE 1 + BitLen(n \div 2)

\* a digit sequence without its leading zero digits
RECURSIVE Trim(_)
Trim(d) == IF d # <<>> /\ d[Len(d)] = 0 THEN Trim(SubSeq(d, 1, Len(d) - 1)) ELSE d

\* the digits of the number whose k-th digit place holds c[k] (c[k] >= 0)
RECURSIVE Carry(_, _)
Carry(c, carry) ==
  IF c = <<>> THEN (IF carry = 0 THEN <<>> ELSE <<carry % B>> \o Carry(c, carry \div B))
  ELSE <<(c[1] + carry) % B>> \o Carry(Tail(c), (c[1] + carry) \div B)

Digit(d, k) == IF k >= 1 /\ k <= Len(d) THEN d[k] ELSE 0
MaxOf(m, n) == IF m > n THEN m ELSE n

AddDigs(a, b) == Carry([k \in 1..MaxOf(Len(a), Len(b)) |-> Digit(a, k) + Digit(b, k)], 0)

\* a - b for a >= b
RECURSIVE Borrow(_, _, _, _)
Borrow(a, b, k, borrow) ==
  IF k > Len(a) THEN <<>>
  ELSE LET t == a[k] - Digit(b, k) - borrow
       IN <<IF t < 0 THEN t + B ELSE t>> \o Borrow(a, b, k + 1, IF t < 0 THEN 1 ELSE 0)
SubDigs(a, b) == Trim(Borrow(a, b, 1, 0))

RECURSIVE Conv(_, _, _, _)
Conv(a, b, k, i) ==
  IF i > Len(a) THEN 0 ELSE a[i] * Digit(b, k + 1 - i) + Conv(a, b, k, i + 1)
MulDigs(a, b) == Trim(Carry([k \in 1..(Len(a) + Len(b) - 1) |-> Conv(a, b, k, 1)], 0))

\* a * 2^sh
ShlDigs(a, sh) ==
  [k \in 1..(sh \div 13) |-> 0] \o Carry([k \in 1..Len(a) |-> a[k] * 2^(sh % 13)], 0)

\* a \div 2^sh
ShrDigs(a, sh) ==
  LET q == sh \div 13
      r == sh % 13
  IN Trim([k \in 1..(Len(a) - q) |->
             (a[k + q] \div 2^r) + (Digit(a, k + q + 1) % 2^r) * 2^(13 - r)])

\* bit i of a (bit 0 the least significant)
Bit(a, i) == (Digit(a, (i \div 13) + 1) \div 2^(i % 13)) % 2
\* some bit below bit n of a is set
LowBits(a, n) ==
  \/ \E k \in 1..(n \div 13) : Digit(a, k) # 0
  \/ Digit(a, (n \div 13) + 1) % 2^(n % 13) # 0

\* -1, 0, 1 as a < b, a = b, a > b (both without leading zeros)
RECURSIVE CmpFrom(_, _, _)
CmpFrom(a, b, k) ==
  IF k = 0 THEN 0
  ELSE IF a[k] > b[k] THEN 1
  ELSE IF a[k] < b[k] THEN -1
  ELSE CmpFrom(a, b, k - 1)
CmpDigs(a, b) ==
  IF Len(a) > Len(b) THEN 1
  ELSE IF Len(a) < Len(b) THEN -1
  ELSE CmpFrom(a, b, Len(a))

\* the digits of the significand hi * 2^26 + lo, and back
Unpack(hi, lo) == Trim(<<lo % B, lo \div B, hi % B, (hi \div B) % B, hi \div (B * B)>>)
PackHi(d) == Digit(d, 3) + Digit(d, 4) * B + Digit(d, 5) * B * B
PackLo(d) == Digit(d, 1) + Digit(d, 2) * B
Sig(a) == Unpack(a[3], a[4])

\* the double nearest to s * A * 2^e, ties to even (A a digit sequence
\* without leading zeros)
Round(s, A, e) ==
  IF A = <<>> THEN Zero
  ELSE LET L  == 13 * (Len(A) - 1) + BitLen(A[Len(A)])
           sh == L - 53
           Q  == ShrDigs(A, sh)
           up == Bit(A, sh - 1) = 1 /\ (LowBits(A, sh - 1) \/ Bit(Q, 0) = 1)
           M  == IF L <= 53 THEN ShlDigs(A, 53 - L)
                 ELSE IF up THEN AddDigs(Q, <<1>>) ELSE Q
           hi == PackHi(M)
       IN IF hi = 2 * H THEN <<s, e + L, H, 0>>
          ELSE <<s, e + L - 1, hi, PackLo(M)>>

\* the double of the integer k
FromInt(k) ==
  LET m == IF k < 0 THEN -k ELSE k
  IN Round(IF k < 0 THEN -1 ELSE 1,
           Trim(<<m % B, (m \div B) % B, m \div (B * B)>>), 0)

FNeg(a) == IF IsNaN(a) THEN NaN ELSE <<-a[1], a[2], a[3], a[4]>>

FMul(a, b) ==
  IF IsNaN(a) \/ IsNaN(b) THEN NaN
  ELSE IF IsInf(a) \/ IsInf(b)
       THEN (IF IsZero(a) \/ IsZero(b) THEN NaN ELSE Inf(a[1] * b[1]))
  ELSE IF IsZero(a) \/ IsZero(b) THEN Zero
  ELSE Round(a[1] * b[1], MulDigs(Sig(a), Sig(b)), a[2] + b[2] - 104)

\* x + y for finite non-zero x, y with exponent of x >= exponent of y
AddAligned(x, y) ==
  LET d == x[2] - y[2]
  IN IF d > 60 THEN x
     ELSE LET X == ShlDigs(Sig(x), d)
              Y == Sig(y)
              c == CmpDigs(X, Y)
          IN IF x[1] # y[1] /\ c = 0 THEN Zero
             ELSE Round(IF x[1] = y[1] \/ c > 0 THEN x[1] ELSE y[1],
                        IF x[1] = y[1] THEN AddDigs(X, Y)
                        ELSE IF c > 0 THEN SubDigs(X, Y) ELSE SubDigs(Y, X),
                        y[2] - 52)

FAdd(a, b) ==
  IF IsNaN(a) \/ IsNaN(b) THEN NaN
  ELSE IF IsInf(a) THEN (IF IsInf(b) /\ a[1] # b[1] THEN NaN ELSE a)
  ELSE IF IsInf(b) THEN b
  ELSE IF IsZero(a) THEN b
  ELSE IF IsZero(b) THEN a
  ELSE AddAligned(IF a[2] >= b[2] THEN a ELSE b, IF a[2] >= b[2] THEN b ELSE a)

\* significands as pairs <<hi, lo>>
PairGe(p, q) == p[1] > q[1] \/ (p[1] = q[1] /\ p[2] >= q[2])
PairSub(p, q) == IF p[2] >= q[2] THEN <<p[1] - q[1], p[2] - q[2]>>
                 ELSE <<p[1] - q[1] - 1, p[2] + H - q[2]>>
PairDbl(p) == <<2 * p[1] + (2 * p[2]) \div H, (2 * p[2]) % H>>

\* n more quotient bits of R / D by restoring division: <<quotient, remainder>>
RECURSIVE DivBits(_, _, _, _)
DivBits(R, D, Q, n) ==
  IF n = 0 \/ Q[1] < 0 \/ R[1] < 0 THEN <<Q, R>>
  ELSE LET R2 == PairDbl(R)
           Q2 == PairDbl(Q)
       IN IF PairGe(R2, D)
          THEN DivBits(PairSub(R2, D), D, <<Q2[1], Q2[2] + 1>>, n - 1)
          ELSE DivBits(R2, D, Q2, n - 1)

FDiv(a, b) ==
  IF IsNaN(a) \/ IsNaN(b) THEN NaN
  ELSE IF IsInf(a) THEN (IF IsInf(b) THEN NaN
                         ELSE Inf(IF b[1] = -1 THEN -a[1] ELSE a[1]))
  ELSE IF IsInf(b) THEN Zero
  ELSE IF IsZero(b) THEN (IF IsZero(a) THEN NaN ELSE Inf(a[1]))
  ELSE IF IsZero(a) THEN Zero
  ELSE LET Ma == <<a[3], a[4]>>
           Mb == <<b[3], b[4]>>
           ge == PairGe(Ma, Mb)
           \* the first quotient bit is 1; 53 more follow
           qr == DivBits(PairSub(IF ge THEN Ma ELSE PairDbl(Ma), Mb), Mb, <<0, 1>>, 53)
           Q  == PairDbl(qr[1])
           A  == Unpack(Q[1], Q[2] + (IF qr[2] = <<0, 0>> THEN 0 ELSE 1))
       IN Round(a[1] * b[1], A, a[2] - b[2] - (IF ge THEN 0 ELSE 1) - 54)

\* |a| < |b| for finite non-zero a, b, or an infinity
Less(a, b) ==
  \/ a[2] < b[2]
  \/ a[2] = b[2] /\ (a[3] < b[3] \/ (a[3] = b[3] /\ a[4] < b[4]))
\* a > b and a >= b; a comparison with NaN is False, as in numpy
FGt(a, b) ==
  /\ ~IsNaN(a)
  /\ ~IsNaN(b)
  /\ \/ a[1] > b[1]
     \/ a[1] = 1 /\ b[1] = 1 /\ Less(b, a)
     \/ a[1] = -1 /\ b[1] = -1 /\ Less(a, b)
FGe(a, b) == ~IsNaN(a) /\ ~IsNaN(b) /\ (a = b \/ FGt(a, b))

(***************************************************************************)
(* The same operations on the values the model's inputs lead to, computed  *)
(* once; any other operand is computed when it comes.                      *)
(***************************************************************************)
TableInts == (-11..11) \cup {100} \cup VolumeThresholds \cup PriceThresholds
NumTable == [k \in TableInts |-> FromInt(k)]
Num(k) == IF k \in TableInts THEN NumTable[k] ELSE FromInt(k)

\* the closes, the volumes, their sums and differences, the numbers of rows
SmallNums == {FromInt(k) : k \in -11..11}

\* quotients: means of volumes, close over previous close, gain over buy
\* price, the threshold over 100, the share of wins
Dividends == {FromInt(k) : k \in (-11..11) \cup VolumeThresholds}
Divisors == {FromInt(k) : k \in (1..11) \cup {100}}
QuotientTable == [a \in Dividends |-> [b \in Divisors |-> FDiv(a, b)]]
Ratios == {FDiv(a, b) : a \in Dividends, b \in Divisors}

\* sums and differences of small numbers, and a ratio less one
SumTable == [a \in SmallNums |-> [b \in SmallNums |-> FAdd(a, b)]]
LessOneTable == [a \in Ratios |-> FAdd(a, FromInt(-1))]

\* a ratio or a change times 100, and the threshold factor times a mean
Fractions == UNION {{r, LessOneTable[r]} : r \in Ratios}
PercentTable == [a \in Fractions |-> FMul(a, FromInt(100))]
Factors == {FDiv(FromInt(t), FromInt(100)) : t \in VolumeThresholds}
ScaleTable == [a \in Factors |-> [b \in Ratios |-> FMul(a, b)]]

Add(a, b) ==
  IF a \in SmallNums /\ b \in SmallNums THEN SumTable[a][b]
  ELSE IF b = NumTable[-1] /\ a \in Ratios THEN LessOneTable[a]
  ELSE FAdd(a, b)
Sub(a, b) == Add(a, FNeg(b))
Mul(a, b) ==
  IF b = NumTable[100] /\ a \in Fractions THEN PercentTable[a]
  ELSE IF a \in Factors /\ b \in Ratios THEN ScaleTable[a][b]
  ELSE FMul(a, b)
Div(a, b) ==
  IF a \in Dividends /\ b \in Divisors THEN QuotientTable[a][b]
  ELSE FDiv(a, b)

\* the sum of a rolling window, added left to right; the volumes are whole
\* numbers below 2^53, whose sums are exact in whatever order they are added
RECURSIVE SeqSum(_)
SeqSum(s) ==
  IF s = <<>> THEN Zero
  ELSE IF Len(s) = 1 THEN s[1]
  ELSE Add(SeqSum(SubSeq(s, 1, Len(s) - 1)), s[Len(s)])

\* numpy's sum of a float64 column (Series.mean() divides it by the count):
\* fewer than 8 values are added left to right; up to 128 values are added
\* into eight running sums, value i going to sum i mod 8, the eight are added
\* in pairs, and the values left over after the last full block of eight are
\* added one by one; a longer column is split in two near the middle, at a
\* multiple of 8, and the sums of the halves are added
RECURSIVE AddUpTo(_, _, _, _)
AddUpTo(acc, s, lo, hi) ==
  IF hi < lo THEN acc ELSE FAdd(AddUpTo(acc, s, lo, hi - 1), s[hi])

RECURSIVE LaneSum(_, _, _)
LaneSum(s, j, m) ==
  IF m = 1 THEN s[j] ELSE FAdd(LaneSum(s, j, m - 1), s[8 * (m - 1) + j])

RECURSIVE AddPairs(_, _, _)
AddPairs(r, lo, hi) ==
  IF lo = hi THEN r[lo]
  ELSE FAdd(AddPairs(r, lo, (lo + hi) \div 2), AddPairs(r, (lo + hi) \div 2 + 1, hi))

RECURSIVE PairwiseSum(_)
PairwiseSum(s) ==
  LET n == Len(s)
      m == n \div 8
      r == [j \in 1..8 |-> LaneSum(s, j, m)]
      h == (n \div 2) - ((n \div 2) % 8)
  IN IF n <= 128
     THEN AddUpTo(IF n < 8 THEN Zero ELSE AddPairs(r, 1, 8), s, 8 * m + 1, n)
     ELSE FAdd(PairwiseSum(SubSeq(s, 1, h)), PairwiseSum(SubSeq(s, h + 1, n)))

\* the subsequence of s at the positions of keep, in order
RECURSIVE Pick(_, _, _)
Pick(s, keep, k) ==
  IF k > Len(s) THEN <<>>
  ELSE (IF k \in keep THEN <<s[k]>> ELSE <<>>) \o Pick(s, keep, k + 1)

(***************************************************************************)
(* DataFrame operations.                                                   *)
(***************************************************************************)
NRows(df) == Len(df.index)
Empty(df) == NRows(df) = 0

\* df[name] = col  (in place: the result replaces the frame object)
SetCol(df, name, col) ==
  [index |-> df.index,
   cols  |-> [c \in DOMAIN df.cols \cup {name} |->
                IF c = name THEN col ELSE df.cols[c]]]

\* df[mask]: the rows at the positions of keep, every column kept
Rows(df, keep) ==
  [index |-> Pick(df.index, keep, 1),
   cols  |-> [c \in DOMAIN df.cols |-> Pick(df.cols[c], keep, 1)]]

\* df.dropna(subset=names): rows holding NaN in one of the named columns go
DropNa(df, names) ==
  Rows(df, {k \in 1..NRows(df) : \A c \in names : ~IsNaN(df.cols[c][k])})

\* df[names]: column selection
Select(df, names) ==
  [index |-> df.index, cols |-> [c \in names |-> df.cols[c]]]

EmptyFrame == [index |-> <<>>, cols |-> <<>>]

(***************************************************************************)
(* The calendar: day numbers 1, 2, ...; days 3 and 4 of every week of 7    *)
(* are the weekend, so a short series already holds a gap.                 *)
(***************************************************************************)
IsBusinessDay(d) == (d % 7) \notin {3, 4}

RECURSIVE PrevBDay(_)
PrevBDay(d) == IF IsBusinessDay(d - 1) THEN d - 1 ELSE PrevBDay(d - 1)

\* pd.to_datetime(d) - pd.tseries.offsets.BDay(k)
RECURSIVE BDayBack(_, _)
BDayBack(d, k) == IF k = 0 THEN d ELSE BDayBack(PrevBDay(d), k - 1)

\* the trading days lo..hi in ascending order
RECURSIVE TradingDays(_, _)
TradingDays(lo, hi) ==
  IF lo > hi THEN <<>>
  ELSE (IF IsBusinessDay(lo) THEN <<lo>> ELSE <<>>) \o TradingDays(lo + 1, hi)

\* the first day the provider holds a bar for
FirstListed == 1

\* f'{rolling_window}Day_Avg_Volume'
AvgCol(w) == ToString(w) \o "Day_Avg_Volume"

(***************************************************************************)
(* Initial state and the input widgets.                                    *)
(***************************************************************************)
NoCfg == [start_date |-> 0, end_date |-> 0, volume_threshold |-> 0,
          price_threshold |-> 0, holding_period |-> 0, rolling_window |-> 0]
NoOutcome == [kind |-> "none"]

Configs ==
  {c \in [start_date : StartDates, end_date : 1..MaxDay,
          volume_threshold : VolumeThresholds, price_threshold : PriceThresholds,
          holding_period : 1..MaxHold, rolling_window : Windows] :
     c.start_date <= c.end_date}

\* a frame of raw bars: one close and one volume per trading day
RawFrame(days, cl, vo) ==
  [index |-> days,
   cols  |-> [c \in {"Close", "Volume"} |->
                IF c = "Close" THEN [k \in 1..Len(days) |-> Num(cl[k])]
                ELSE [k \in 1..Len(days) |-> Num(vo[k])]]]

Init ==
  /\ pc = [r \in Runs |-> IF r = "a" THEN "inputs" ELSE "idle"]
  /\ cfg = [r \in Runs |-> NoCfg]
  /\ bars = EmptyFrame
  /\ data = [r \in Runs |-> EmptyFrame]
  /\ results = [r \in Runs |-> EmptyFrame]
  /\ outcome = [r \in Runs |-> NoOutcome]

\* with col1: the widgets (end_date has min_value=start_date)
Inputs(r) ==
  /\ pc[r] = "inputs"
  /\ \E c \in Configs : cfg' = [cfg EXCEPT ![r] = c]
  /\ pc' = [pc EXCEPT ![r] = "fetch"]
  /\ UNCHANGED <<bars, data, results, outcome>>

\* the trading days yf.download covers for start=start_date minus
\* rolling_window + 1 business days, end=end_date plus one day
FetchedDays(c) ==
  LET lo == BDayBack(c.start_date, c.rolling_window + 1)
  IN TradingDays(IF lo < FirstListed THEN FirstListed ELSE lo, c.end_date)

\* fetch_stock_data: the provider's bars, or an empty frame
Fetch(r) ==
  /\ pc[r] = "fetch"
  /\ LET days == FetchedDays(cfg[r])
     IN \E known \in BOOLEAN :
          IF known /\ days # <<>>
          THEN \E cl \in [1..Len(days) -> CloseVals],
                  vo \in [1..Len(days) -> VolVals] :
                 /\ bars' = RawFrame(days, cl, vo)
                 /\ pc' = [pc EXCEPT ![r] = "baseline"]
          ELSE /\ bars' = EmptyFrame
               /\ pc' = [pc EXCEPT ![r] = "nodata"]
  /\ UNCHANGED <<cfg, data, results, outcome>>

(***************************************************************************)
(* calculate_rolling_avg_volume                                            *)
(***************************************************************************)
\* Series.rolling(window=w, min_periods=w).mean(): the sum of the w values
\* ending at each row (exact for integer volumes) divided by w, NaN while
\* fewer than w values are there
RollingMean(col, w) ==
  [k \in 1..Len(col) |->
     IF k < w THEN NaN
     ELSE Div(SeqSum(SubSeq(col, k - w + 1, k)), Num(w))]

\* Shift1 as it would be with the shift forgotten
Shift1Forgotten(col) == col

\* Series.shift(1)
Shift1(col) == [k \in 1..Len(col) |-> IF k = 1 THEN NaN ELSE col[k - 1]]

\* Series.pct_change(periods=1)
PctChange(col) ==
  [k \in 1..Len(col) |->
     IF k = 1 THEN NaN ELSE Sub(Div(col[k], col[k - 1]), Num(1))]

Times100(col) == [k \in 1..Len(col) |-> Mul(col[k], Num(100))]

\* line 24: the average column written into the frame that was passed in
WithAvgVolume(df, w) ==
  SetCol(df, AvgCol(w), Shift1(RollingMean(df.cols["Volume"], w)))

\* line 25: the return column written into the frame that was passed in
WithDailyReturn(df) ==
  SetCol(df, "Daily_Return", Times100(PctChange(df.cols["Close"])))

\* lines 24-25
WithBaseline(df, w) == WithDailyReturn(WithAvgVolume(df, w))

\* FromStart as it would be without .dropna()
FromStartKeepingNaN(df, start) ==
  Rows(df, {k \in 1..NRows(df) : df.index[k] >= start})

\* line 26: data[data.index >= start_date].dropna(), a new frame
FromStart(df, start) ==
  DropNa(Rows(df, {k \in 1..NRows(df) : df.index[k] >= start}), DOMAIN df.cols)

\* calculate_rolling_avg_volume as it would be with the rows before
\* start_date dropped before the baseline is computed
BaselineAfterFilter(df, start, w) ==
  LET late == Rows(df, {k \in 1..NRows(df) : df.index[k] >= start})
      full == WithBaseline(late, w)
  IN DropNa(full, DOMAIN full.cols)

calculate_rolling_avg_volume(df, start, w) == FromStart(WithBaseline(df, w), start)

(***************************************************************************)
(* identify_breakout_days                                                  *)
(***************************************************************************)
\* VolumeBreakout as it would be with >= for >
VolumeBreakoutAtLeast(df, vt, w) ==
  [k \in 1..NRows(df) |->
     FGe(df.cols["Volume"][k], Mul(Div(Num(vt), Num(100)), df.cols[AvgCol(w)][k]))]

VolumeBreakout(df, vt, w) ==
  [k \in 1..NRows(df) |->
     FGt(df.cols["Volume"][k], Mul(Div(Num(vt), Num(100)), df.cols[AvgCol(w)][k]))]

PriceBreakout(df, pt) ==
  [k \in 1..NRows(df) |-> FGt(df.cols["Daily_Return"][k], Num(pt))]

identify_breakout_days(df, vt, pt, w) ==
  LET vb == VolumeBreakout(df, vt, w)
      pb == PriceBreakout(df, pt)
  IN SetCol(SetCol(SetCol(df, "Volume_Breakout", vb), "Price_Breakout", pb),
            "Breakout_Day", [k \in 1..NRows(df) |-> vb[k] /\ pb[k]])

(***************************************************************************)
(* calculate_holding_returns                                               *)
(***************************************************************************)
\* FutureDates as it would be with iloc[0:holding_period+1]
FutureDatesWithSignal(df, date, hp) ==
  LET from == Pick(df.cols["Close"], {k \in 1..NRows(df) : df.index[k] >= date}, 1)
      last == IF hp + 1 < Len(from) THEN hp + 1 ELSE Len(from)
  IN SubSeq(from, 1, last)

\* FutureDates as it would be with iloc[1:holding_period]
FutureDatesOneShort(df, date, hp) ==
  LET from == Pick(df.cols["Close"], {k \in 1..NRows(df) : df.index[k] >= date}, 1)
      last == IF hp < Len(from) THEN hp ELSE Len(from)
  IN SubSeq(from, 2, last)

\* data.loc[breakout_date:].iloc[1:holding_period+1]['Close']
FutureDates(df, date, hp) ==
  LET from == Pick(df.cols["Close"], {k \in 1..NRows(df) : df.index[k] >= date}, 1)
      last == IF hp + 1 < Len(from) THEN hp + 1 ELSE Len(from)
  IN SubSeq(from, 2, last)

\* future_dates.iloc[-1] if not future_dates.empty else None
SellPrice(df, date, hp) ==
  LET future_dates == FutureDates(df, date, hp)
  IN IF future_dates = <<>> THEN NaN ELSE future_dates[Len(future_dates)]

calculate_holding_returns(df, hp) ==
  LET breakout_days == Rows(df, {k \in 1..NRows(df) : df.cols["Breakout_Day"][k]})
      n    == NRows(breakout_days)
      buy  == breakout_days.cols["Close"]
      sell == [k \in 1..n |-> SellPrice(df, breakout_days.index[k], hp)]
      ret  == [k \in 1..n |->
                 Mul(Div(Sub(sell[k], buy[k]), buy[k]), Num(100))]
  IN DropNa(SetCol(SetCol(SetCol(breakout_days, "Buy_Price", buy),
                          "Sell_Price", sell), "Return", ret),
            {"Sell_Price"})

(***************************************************************************)
(* The main script, lines 82-197.                                          *)
(***************************************************************************)
DisplayedColumns(w) ==
  {"Close", "Volume", AvgCol(w), "Daily_Return", "Buy_Price", "Sell_Price", "Return"}

DisplayResults(res, w) ==
  DropNa(Select(res, DisplayedColumns(w)), DisplayedColumns(w))

\* Wins as it would be with >= for >
WinsOrFlat(ret) == Cardinality({k \in 1..Len(ret) : FGe(ret[k], Num(0))})

\* (display_results['Return'] > 0): the number of True entries
Wins(ret) == Cardinality({k \in 1..Len(ret) : FGt(ret[k], Num(0))})

Summary(display) ==
  LET ret == display.cols["Return"]
      n   == NRows(display)
  IN [kind         |-> "metrics",
      total_trades |-> n,
      mean_return  |-> Div(PairwiseSum(ret), Num(n)),
      win_rate     |-> Mul(Div(Num(Wins(ret)), Num(n)), Num(100))]

\* line 85
Baseline(r) ==
  /\ pc[r] = "baseline"
  /\ bars' = WithBaseline(bars, cfg[r].rolling_window)
  /\ data' = [data EXCEPT ![r] =
                calculate_rolling_avg_volume(bars, cfg[r].start_date,
                                             cfg[r].rolling_window)]
  /\ pc' = [pc EXCEPT ![r] = "classify"]
  /\ UNCHANGED <<cfg, results, outcome>>

\* line 86
Classify(r) ==
  /\ pc[r] = "classify"
  /\ data' = [data EXCEPT ![r] =
                identify_breakout_days(data[r], cfg[r].volume_threshold,
                                       cfg[r].price_threshold,
                                       cfg[r].rolling_window)]
  /\ pc' = [pc EXCEPT ![r] = "evaluate"]
  /\ UNCHANGED <<cfg, bars, results, outcome>>

\* line 87
Evaluate(r) ==
  /\ pc[r] = "evaluate"
  /\ results' = [results EXCEPT ![r] =
                   calculate_holding_returns(data[r], cfg[r].holding_period)]
  /\ pc' = [pc EXCEPT ![r] = "summary"]
  /\ UNCHANGED <<cfg, bars, data, outcome>>

\* lines 89-105
Report(res, w) ==
  LET display_results == DisplayResults(res, w)
  IN IF Empty(display_results) THEN [kind |-> "no_trades"]
     ELSE Summary(display_results)

Summarize(r) ==
  /\ pc[r] = "summary"
  /\ outcome' = [outcome EXCEPT ![r] = Report(results[r], cfg[r].rolling_window)]
  /\ pc' = [pc EXCEPT ![r] = "done"]
  /\ UNCHANGED <<cfg, bars, data, results>>

\* lines 196-197
NoData(r) ==
  /\ pc[r] = "nodata"
  /\ outcome' = [outcome EXCEPT ![r] = [kind |-> "no_data"]]
  /\ pc' = [pc EXCEPT ![r] = "done"]
  /\ UNCHANGED <<cfg, bars, data, results>>

Next ==
  \/ Inputs("a")
  \/ Fetch("a")
  \/ Baseline("a")
  \/ Classify("a")
  \/ Evaluate("a")
  \/ Summarize("a")
  \/ NoData("a")

Spec == Init /\ [][Next]_vars

(***************************************************************************)
(* A run over a long series.                                               *)
(***************************************************************************)
LongConfigs ==
  {c \in [start_date : StartDates, end_date : LongEndDates,
          volume_threshold : VolumeThresholds, price_threshold : PriceThresholds,
          holding_period : 1..MaxHold, rolling_window : Windows] :
     c.start_date <= c.end_date}

\* with col1: the widgets (end_date has min_value=start_date)
InputsLong(r) ==
  /\ pc[r] = "inputs"
  /\ \E c \in LongConfigs : cfg' = [cfg EXCEPT ![r] = c]
  /\ pc' = [pc EXCEPT ![r] = "fetch"]
  /\ UNCHANGED <<bars, data, results, outcome>>

\* fetch_stock_data: the provider's bars, or an empty frame
FetchLong(r) ==
  /\ pc[r] = "fetch"
  /\ LET days == FetchedDays(cfg[r])
     IN \E known \in BOOLEAN :
          IF known /\ days # <<>>
          THEN \E cl \in [1..Len(days) -> LongCloseVals],
                  vo \in [1..Len(days) -> VolVals] :
                 /\ bars' = RawFrame(days, cl, vo)
                 /\ pc' = [pc EXCEPT ![r] = "baseline"]
          ELSE /\ bars' = EmptyFrame
               /\ pc' = [pc EXCEPT ![r] = "nodata"]
  /\ UNCHANGED <<cfg, data, results, outcome>>

NextLong ==
  \/ InputsLong("a")
  \/ FetchLong("a")
  \/ Baseline("a")
  \/ Classify("a")
  \/ Evaluate("a")
  \/ Summarize("a")
  \/ NoData("a")

SpecLong == Init /\ [][NextLong]_vars

(***************************************************************************)
(* Two runs over one fetched frame.                                        *)
(***************************************************************************)
\* the frame was fetched once, for run "a"; both runs hold their inputs
InitPar ==
  /\ pc = [r \in Runs |-> "baseline"]
  /\ cfg \in [Runs -> {c \in Configs : c.start_date = FirstListed
                                       /\ c.end_date \in ParEndDates}]
  /\ LET days == FetchedDays(cfg["a"])
     IN \E cl \in [1..Len(days) -> ParCloseVals],
           vo \in [1..Len(days) -> VolVals] : bars = RawFrame(days, cl, vo)
  /\ data = [r \in Runs |-> EmptyFrame]
  /\ results = [r \in Runs |-> EmptyFrame]
  /\ outcome = [r \in Runs |-> NoOutcome]

\* calculate_rolling_avg_volume statement by statement: between two of its
\* statements the other run may execute statements of its own
BaselineLine24(r) ==
  /\ pc[r] = "baseline"
  /\ bars' = WithAvgVolume(bars, cfg[r].rolling_window)
  /\ pc' = [pc EXCEPT ![r] = "line25"]
  /\ UNCHANGED <<cfg, data, results, outcome>>

BaselineLine25(r) ==
  /\ pc[r] = "line25"
  /\ bars' = WithDailyReturn(bars)
  /\ pc' = [pc EXCEPT ![r] = "line26"]
  /\ UNCHANGED <<cfg, data, results, outcome>>

BaselineLine26(r) ==
  /\ pc[r] = "line26"
  /\ data' = [data EXCEPT ![r] = FromStart(bars, cfg[r].start_date)]
  /\ pc' = [pc EXCEPT ![r] = "classify"]
  /\ UNCHANGED <<cfg, bars, results, outcome>>

NextPar ==
  \E r \in Runs :
    \/ BaselineLine24(r)
    \/ BaselineLine25(r)
    \/ BaselineLine26(r)
    \/ Classify(r)
    \/ Evaluate(r)
    \/ Summarize(r)

SpecPar == InitPar /\ [][NextPar]_vars

(***************************************************************************)
(* Properties.  They are stated on the fetched series: Close(k) and        *)
(* Volume(k) are the close and the volume of the k-th bar as integers      *)
(* (k = 1 is the first bar the provider returned), N the number of bars.   *)
(***************************************************************************)
N == NRows(bars)
Close(k) == CHOOSE c \in CloseVals : Num(c) = bars.cols["Close"][k]
Volume(k) == CHOOSE v \in VolVals : Num(v) = bars.cols["Volume"][k]
W == cfg["a"].rolling_window
HP == cfg["a"].holding_period
Start == cfg["a"].start_date

RECURSIVE VolumeSum(_, _)
VolumeSum(lo, hi) == IF lo > hi THEN 0 ELSE Volume(lo) + VolumeSum(lo + 1, hi)

\* the position in the fetched series of the bar dated d
PosOf(d) == CHOOSE k \in 1..N : bars.index[k] = d

Baselined == pc["a"] \in {"classify", "evaluate", "summary", "done"}
Classified == pc["a"] \in {"evaluate", "summary", "done"}
Evaluated == pc["a"] \in {"summary", "done"}
Finished == pc["a"] = "done" /\ outcome["a"].kind # "no_data"

\* the positions in the fetched series of the bars flagged as breakouts
BreakoutPositions ==
  {PosOf(data["a"].index[t]) : t \in {u \in 1..NRows(data["a"]) :
                                        data["a"].cols["Breakout_Day"][u]}}
\* the positions in the fetched series of the signal bars of the Trades
TradePositions == {PosOf(results["a"].index[t]) : t \in 1..NRows(results["a"])}

(***************************************************************************)
(* C1: a breakout bar followed by fewer than holding_period bars           *)
(* (k + holding_period > N) gives no Trade.  The code takes the last bar   *)
(* there is whenever at least one bar follows the signal.                  *)
(***************************************************************************)
C1_DroppedWithoutFullHolding ==
  Evaluated =>
    \A k \in BreakoutPositions : k + HP > N => k \notin TradePositions

(***************************************************************************)
(* C2: the close a Trade sells at is the close of the bar exactly          *)
(* holding_period positions after its signal bar in the series.            *)
(***************************************************************************)
C2_SellAtHoldingOffset ==
  Evaluated =>
    \A t \in 1..NRows(results["a"]) :
      LET k == PosOf(results["a"].index[t])
      IN /\ k + HP <= N
         /\ results["a"].cols["Sell_Price"][t] = Num(Close(k + HP))

(***************************************************************************)
(* C3.  For the bar at position k > W of the fetched series, in float64:   *)
(*   MeanBefore(k)       the mean of the W volumes before it,              *)
(*   ThresholdMultiple(k) = (volume_threshold / 100) * MeanBefore(k),      *)
(*   ReturnPct(k)        = (Close(k) / Close(k-1) - 1) * 100,              *)
(* each operation rounded as the program's arithmetic rounds it.           *)
(***************************************************************************)
MeanBefore(k) == Div(Num(VolumeSum(k - W, k - 1)), Num(W))
ThresholdMultiple(k) ==
  Mul(Div(Num(cfg["a"].volume_threshold), Num(100)), MeanBefore(k))
ReturnPct(k) == Mul(Sub(Div(Num(Close(k)), Num(Close(k - 1))), Num(1)), Num(100))

VolumeAbove(k) == FGt(Num(Volume(k)), ThresholdMultiple(k))
VolumeAtThreshold(k) == Num(Volume(k)) = ThresholdMultiple(k)
ReturnAbove(k) == FGt(ReturnPct(k), Num(cfg["a"].price_threshold))

\* C3 as claimed: when identify_breakout_days has returned, every classified
\* bar is flagged exactly when its volume is at least the threshold multiple
\* of its trailing average and its daily return is above the price threshold.
C3_FlagAtLeastThreshold ==
  pc["a"] = "evaluate" =>
    \A t \in 1..NRows(data["a"]) :
      LET k == PosOf(data["a"].index[t])
      IN data["a"].cols["Breakout_Day"][t]
           <=> ((VolumeAbove(k) \/ VolumeAtThreshold(k)) /\ ReturnAbove(k))

\* C3 amended: when identify_breakout_days has returned, every classified bar
\* is flagged exactly when its volume is strictly above the threshold multiple
\* of its trailing average and its daily return is above the price threshold,
\* the multiple and the return being the doubles the program computes.
C3_FlagAboveThreshold ==
  pc["a"] = "evaluate" =>
    \A t \in 1..NRows(data["a"]) :
      LET k == PosOf(data["a"].index[t])
      IN data["a"].cols["Breakout_Day"][t] <=> (VolumeAbove(k) /\ ReturnAbove(k))

\* a classified bar whose volume equals the threshold multiple exactly, with a
\* return above the price threshold, is there and is not flagged
C3_Witness ==
  /\ pc["a"] = "evaluate"
  /\ \E t \in 1..NRows(data["a"]) :
       LET k == PosOf(data["a"].index[t])
       IN /\ VolumeAtThreshold(k)
          /\ ReturnAbove(k)
          /\ ~data["a"].cols["Breakout_Day"][t]

(***************************************************************************)
(* C4: after calculate_rolling_avg_volume, when the series has more than   *)
(* rolling_window bars, the trailing average of the bar at position k      *)
(* (k = 1 first) is defined iff k > rolling_window, is then the mean of    *)
(* the rolling_window volumes at k - rolling_window .. k - 1, and is the   *)
(* same whatever the volume at k is.                                       *)
(***************************************************************************)
TrailingAvg(k) == bars.cols[AvgCol(W)][k]

C4_TrailingAverage ==
  (pc["a"] = "classify" /\ N > W) =>
    \A k \in 1..N :
      /\ ~IsNaN(TrailingAvg(k)) <=> k > W
      /\ k > W => TrailingAvg(k) = MeanBefore(k)
      /\ \A v \in VolVals :
           Shift1(RollingMean([bars.cols["Volume"] EXCEPT ![k] = Num(v)], W))[k]
             = TrailingAvg(k)

\* a series whose last bar has a defined average over volumes that differ,
\* its own volume unlike that average
C4_Witness ==
  /\ pc["a"] = "classify"
  /\ N > W
  /\ ~IsNaN(TrailingAvg(N))
  /\ Volume(N - 1) # Volume(N - W)
  /\ TrailingAvg(N) # Num(Volume(N))

(***************************************************************************)
(* C5: a run on a non-empty series of fewer than rolling_window + 1 bars   *)
(* never ends in the outcome of a run that had the history and found no    *)
(* trade, which is [kind |-> "no_trades"], the warning of line 94.         *)
(***************************************************************************)
C5_ShortSeriesToldApart ==
  (pc["a"] = "done" /\ N > 0 /\ N < W + 1) => outcome["a"] # [kind |-> "no_trades"]

(***************************************************************************)
(* C6: no bar dated before start_date is in the classified set or is a     *)
(* Trade's signal bar, and every bar dated on or after start_date at a     *)
(* position k > rolling_window of the fetched series is in the classified  *)
(* set, with the mean of the rolling_window volumes before it in the       *)
(* fetched series as its baseline.                                         *)
(***************************************************************************)
C6_PrefixDroppedAfterBaseline ==
  pc["a"] = "summary" =>
    /\ \A t \in 1..NRows(data["a"]) : data["a"].index[t] >= Start
    /\ \A t \in 1..NRows(results["a"]) : results["a"].index[t] >= Start
    /\ \A k \in 1..N :
         (bars.index[k] >= Start /\ k > W) =>
           \E t \in 1..NRows(data["a"]) :
             /\ data["a"].index[t] = bars.index[k]
             /\ data["a"].cols[AvgCol(W)][t] = MeanBefore(k)
             /\ ~IsNaN(data["a"].cols[AvgCol(W)][t])

\* the first classified bar is the first bar dated on or after start_date, and
\* the bars its baseline is taken from are dated before start_date
C6_Witness ==
  /\ pc["a"] = "summary"
  /\ NRows(data["a"]) > 0
  /\ LET k == PosOf(data["a"].index[1])
     IN /\ k > W
        /\ bars.index[k - 1] < Start
        /\ Volume(k - 1) # Volume(k - W)

(***************************************************************************)
(* C7: every bar flagged as a breakout, and every Trade's signal bar, has  *)
(* its trailing average and its daily return defined, and no bar at a      *)
(* position k <= rolling_window of the fetched series is in the            *)
(* classified set.                                                         *)
(***************************************************************************)
DefinedAt(df, t) ==
  /\ ~IsNaN(df.cols[AvgCol(W)][t])
  /\ ~IsNaN(df.cols["Daily_Return"][t])

C7_OnlyDefinedBarsClassified ==
  pc["a"] = "summary" =>
    /\ \A t \in 1..NRows(data["a"]) :
         data["a"].cols["Breakout_Day"][t] =>
           DefinedAt(data["a"], t) /\ PosOf(data["a"].index[t]) > W
    /\ \A t \in 1..NRows(results["a"]) :
         DefinedAt(results["a"], t) /\ PosOf(results["a"].index[t]) > W
    /\ \A k \in 1..N :
         k <= W => \A t \in 1..NRows(data["a"]) : data["a"].index[t] # bars.index[k]

\* a run with a Trade whose undefined-baseline bars are dated on or after
\* start_date, so that only the missing baseline keeps them out
C7_Witness ==
  /\ pc["a"] = "summary"
  /\ NRows(results["a"]) > 0
  /\ bars.index[1] >= Start
  /\ NRows(data["a"]) = N - W

(***************************************************************************)
(* C8: total_trades is the number of Trades; with no Trade the run reports *)
(* the no-trades outcome, which holds no mean return and no win rate; with *)
(* Trades the win rate is the percentage of Trades whose sell price is     *)
(* strictly above the buy price.                                           *)
(***************************************************************************)
StrictWins ==
  Cardinality({t \in 1..NRows(results["a"]) :
                 FGt(results["a"].cols["Sell_Price"][t],
                       results["a"].cols["Buy_Price"][t])})

C8_SummaryCounts ==
  Finished =>
    LET n == NRows(results["a"])
    IN /\ n = 0 => outcome["a"] = [kind |-> "no_trades"]
       /\ n > 0 =>
            /\ outcome["a"].kind = "metrics"
            /\ outcome["a"].total_trades = n
            /\ outcome["a"].win_rate = Mul(Div(Num(StrictWins), Num(n)), Num(100))

\* a run whose only Trade sold at its buy price
C8_Witness ==
  /\ Finished
  /\ NRows(results["a"]) = 1
  /\ results["a"].cols["Sell_Price"][1] = results["a"].cols["Buy_Price"][1]
  /\ outcome["a"].kind = "metrics"

(***************************************************************************)
(* C9: after calculate_rolling_avg_volume the frame that was passed in     *)
(* holds the columns it held when fetched and no other.                    *)
(***************************************************************************)
C9_InputFrameUntouched ==
  Baselined => DOMAIN bars.cols = {"Close", "Volume"}

(***************************************************************************)
(* C10 (SpecPar): a run that has finished reports the Trades and the       *)
(* outcome it reports when it is the only run over the fetched bars.       *)
(***************************************************************************)
FetchedBars == Select(bars, {"Close", "Volume"})

AloneResults(c) ==
  calculate_holding_returns(
    identify_breakout_days(
      calculate_rolling_avg_volume(FetchedBars, c.start_date, c.rolling_window),
      c.volume_threshold, c.price_threshold, c.rolling_window),
    c.holding_period)

C10_SameAsAlone ==
  \A r \in Runs :
    pc[r] = "done" =>
      /\ outcome[r] = Report(AloneResults(cfg[r]), cfg[r].rolling_window)
      /\ Select(results[r], DisplayedColumns(cfg[r].rolling_window))
           = Select(AloneResults(cfg[r]), DisplayedColumns(cfg[r].rolling_window))

(***************************************************************************)
(* C11: every breakout bar at position k of the fetched series with        *)
(* k + holding_period <= N has exactly one Trade, bought at Close(k) and   *)
(* sold at Close(k + holding_period); the bar holding_period rows after    *)
(* the signal in the filtered frame data is the bar holding_period         *)
(* positions after it in the fetched series.                               *)
(***************************************************************************)
\* the row of frame df labelled d
RowOf(df, d) == CHOOSE t \in 1..NRows(df) : df.index[t] = d

C11_FullHoldingTrade ==
  pc["a"] = "summary" =>
    \A k \in BreakoutPositions :
      k + HP <= N =>
        LET trades == {t \in 1..NRows(results["a"]) :
                         results["a"].index[t] = bars.index[k]}
            row    == RowOf(data["a"], bars.index[k])
        IN /\ Cardinality(trades) = 1
           /\ \A t \in trades :
                /\ results["a"].cols["Buy_Price"][t] = Num(Close(k))
                /\ results["a"].cols["Sell_Price"][t] = Num(Close(k + HP))
           /\ row + HP <= NRows(data["a"])
           /\ data["a"].index[row + HP] = bars.index[k + HP]

\* a Trade held for a whole holding period of more than one bar and sold at
\* a bar that is neither the next nor the last one, at a close unlike the
\* closes of the signal, the next and the last bar, in a run whose start_date
\* cuts off a bar that has its average and its return
C11_Witness ==
  /\ pc["a"] = "summary"
  /\ HP > 1
  /\ N > W + 1
  /\ bars.index[W + 1] < Start
  /\ \E k \in TradePositions :
       /\ k + HP < N
       /\ Close(k + HP) \notin {Close(k), Close(k + 1), Close(N)}
       /\ RowOf(data["a"], bars.index[k]) = k - PosOf(Start) + 1
       /\ RowOf(data["a"], bars.index[k]) < k - W

(***************************************************************************)
(* C12: every Trade sells at the close of a bar of the series strictly     *)
(* after its signal bar and at most holding_period positions after it      *)
(* (the bar at the smaller of k + holding_period and N, k the signal's     *)
(* position); a breakout on the last bar gives no Trade; no breakout has   *)
(* two Trades; the Trades are in ascending order of signal date.           *)
(***************************************************************************)
SellPosition(k) == IF k + HP < N THEN k + HP ELSE N

C12_SellWithinSeries ==
  pc["a"] = "summary" =>
    /\ \A t \in 1..NRows(results["a"]) :
         LET k == PosOf(results["a"].index[t])
         IN /\ k < SellPosition(k)
            /\ SellPosition(k) <= k + HP
            /\ SellPosition(k) <= N
            /\ results["a"].cols["Sell_Price"][t] = Num(Close(SellPosition(k)))
    /\ N \notin TradePositions
    /\ \A t, u \in 1..NRows(results["a"]) :
         t < u => results["a"].index[t] < results["a"].index[u]
    /\ TradePositions \subseteq BreakoutPositions

\* two breakouts with a Trade each: one held for the whole holding period and
\* sold before the last bar, the later one with fewer than holding_period
\* bars after it and sold, at the last bar, at another close than it was
\* bought at
C12_Witness ==
  /\ pc["a"] = "summary"
  /\ NRows(results["a"]) >= 2
  /\ \E j, k \in TradePositions :
       /\ j < k
       /\ j + HP < N
       /\ Close(j + HP) # Close(j)
       /\ k + HP > N
       /\ Close(N) # Close(k)
====

